---- MODULE Spec2Model ----
(***************************************************************************)
(* Workflow component execution engine of openff-qcsubmit: the component   *)
(* contract (apply / _apply_init / _apply / _apply_finalize), the process  *)
(* pool dispatch of apply, the toolkit validation mixin and the three      *)
(* state enumerators (tautomers, stereoisomers, protomers), together with  *)
(* the legacy qcsubmit enumerators.                                        *)
(*                                                                         *)
(* A molecule is represented by its canonical identity (a small integer).  *)
(* The chemistry toolkit is an opaque, deterministic function of the       *)
(* identity: its answer for a molecule is chosen the first time the        *)
(* molecule is processed and remembered in the variable oracle.            *)
(***************************************************************************)
EXTENDS Integers, Sequences, FiniteSets, TLC

\* ------------------------------------------------------------------ bounds
NumIds == 2          \* number of distinct canonical identities
MaxMols == 2         \* longest input list handed to apply
MaxCalls == 2        \* apply calls made on one component

UnitNumIds == 4      \* identities in the specification of one unit alone
UnitMaxMols == 1     \* longest list handed to _apply in that specification

Ids == 1..NumIds
UnitIds == 1..UnitNumIds
AllIds == Ids \cup UnitIds
\* identities whose stereochemistry is not fully defined
UndefinedStereo == {1}

\* the value None of the argument processors
None == -1
NoMolecules == << >>

\* ------------------------------------------------------- classes, toolkits
EnumeratorClasses ==
    {"EnumerateTautomers", "EnumerateStereoisomers", "EnumerateProtomers"}
\* "CustomWorkflowComponent" stands for a user subclass that keeps the base
\* hooks and supplies its own properties() and _apply
Classes == EnumeratorClasses \cup {"CustomWorkflowComponent"}

\* provider names a caller may ask for; "ambertools" is not registered anywhere
RequestedToolkits == {"openeye", "rdkit", "ambertools"}
Providers == {"openeye", "rdkit"}

\* the class level registry, in dictionary order
_toolkits(c) ==
    IF c = "EnumerateProtomers" THEN <<"openeye">> ELSE <<"rdkit", "openeye">>

Range(s) == {s[i] : i \in DOMAIN s}

Keys(c) == Range(_toolkits(c))

\* ToolkitValidator._check_toolkit: TRUE when the value is accepted,
\* FALSE when ValueError is raised
_check_toolkit_baseRegistry(c, t) == t \in {"rdkit", "openeye"}

_check_toolkit(c, t) == t \in Keys(c)

\* properties() of the three enumerators
properties(c) == [process_parallel |-> TRUE, produces_duplicates |-> TRUE]

\* ------------------------------------------------------- component result
\* ComponentResult: passed and filtered are keyed by canonical identity;
\* merged records the identities onto which a repeat was merged
EmptyResult(skip) ==
    [passed |-> {}, filtered |-> {}, merged |-> {}, skip_unique_check |-> skip]

add_molecule(r, m) ==
    IF m \in r.passed /\ ~r.skip_unique_check
    THEN [r EXCEPT !.merged = @ \cup {m}]
    ELSE [r EXCEPT !.passed = @ \cup {m}]

filter_molecule(r, m) ==
    [r EXCEPT !.filtered = @ \cup {m},
              !.passed = @ \ {m},
              !.merged = @ \ {m}]

RECURSIVE AddAll(_, _)
AddAll(r, S) ==
    IF S = {} THEN r
    ELSE LET m == CHOOSE x \in S : TRUE
         IN  AddAll(add_molecule(r, m), S \ {m})

RECURSIVE FilterAll(_, _)
FilterAll(r, S) ==
    IF S = {} THEN r
    ELSE LET m == CHOOSE x \in S : TRUE
         IN  FilterAll(filter_molecule(r, m), S \ {m})

\* CustomWorkflowComponent._create_result
_create_result_sameFlag(props) == EmptyResult(props.produces_duplicates)

_create_result(props) == EmptyResult(~props.produces_duplicates)

\* ------------------------------------------------------------ the toolkit
\* What the toolkit does with one molecule: the enumeration raises, or it
\* returns the identities in states; conformer generation may raise as well
Unknown == [known |-> FALSE, enumRaises |-> FALSE, states |-> {},
            confRaises |-> FALSE]

Responses(c, U) ==
    {[known |-> TRUE, enumRaises |-> TRUE, states |-> {}, confRaises |-> FALSE]}
    \cup
    {[known |-> TRUE, enumRaises |-> FALSE, states |-> S, confRaises |-> cr] :
        S \in SUBSET U,
        cr \in (IF c = "EnumerateStereoisomers" THEN BOOLEAN ELSE {FALSE})}

check_missing_stereo(m) == m \in UndefinedStereo

\* ------------------------------------------------------------- unit _apply
\* Each _apply returns [raised, result]: raised is TRUE when an exception
\* escapes _apply (the KeyError of a missing cache entry)
HasToolkit(cch) == "toolkit" \in DOMAIN cch

\* body of the loop of EnumerateTautomers._apply for one molecule
EnumerateTautomers_inputOnlyIfAlone(molecule, rsp, result) ==
    IF rsp.enumRaises
    THEN filter_molecule(result, molecule)
    ELSE IF rsp.states = {}
    THEN add_molecule(result, molecule)
    ELSE AddAll(result, rsp.states)

EnumerateTautomers_one(molecule, rsp, result) ==
    IF rsp.enumRaises
    THEN filter_molecule(result, molecule)
    ELSE add_molecule(AddAll(result, rsp.states), molecule)

RECURSIVE EnumerateTautomers_loop(_, _, _)
EnumerateTautomers_loop(mols, orc, result) ==
    IF mols = << >> THEN result
    ELSE EnumerateTautomers_loop(Tail(mols), orc,
             EnumerateTautomers_one(Head(mols), orc[Head(mols)], result))

\* EnumerateTautomers._apply without its try/except
EnumerateTautomers_apply_uncaught(mols, orc, cch, props) ==
    IF ~HasToolkit(cch) \/ \E i \in DOMAIN mols : orc[mols[i]].enumRaises
    THEN [raised |-> TRUE, result |-> _create_result(props)]
    ELSE [raised |-> FALSE,
          result |-> EnumerateTautomers_loop(mols, orc, _create_result(props))]

EnumerateTautomers_apply(mols, orc, cch, props) ==
    IF ~HasToolkit(cch)
    THEN [raised |-> TRUE, result |-> _create_result(props)]
    ELSE [raised |-> FALSE,
          result |-> EnumerateTautomers_loop(mols, orc, _create_result(props))]

\* body of the loop of EnumerateStereoisomers._apply for one molecule
EnumerateStereoisomers_isomersUnchecked(molecule, rsp, rat, result) ==
    IF rsp.enumRaises
    THEN filter_molecule(result, molecule)
    ELSE LET r == AddAll(result, rsp.states)
         IN  IF rat /\ rsp.confRaises
             THEN filter_molecule(r, molecule)
             ELSE IF ~check_missing_stereo(molecule)
             THEN add_molecule(r, molecule)
             ELSE r

EnumerateStereoisomers_inputUnchecked(molecule, rsp, rat, result) ==
    LET withIsomers ==
            AddAll(result, {i \in rsp.states : ~check_missing_stereo(i)})
    IN  IF rsp.enumRaises
        THEN filter_molecule(result, molecule)
        ELSE IF rat /\ rsp.confRaises
        THEN filter_molecule(withIsomers, molecule)
        ELSE add_molecule(withIsomers, molecule)

EnumerateStereoisomers_one(molecule, rsp, rat, result) ==
    LET withIsomers ==
            AddAll(result, {i \in rsp.states : ~check_missing_stereo(i)})
    IN  IF rsp.enumRaises
        THEN filter_molecule(result, molecule)
        ELSE IF rat /\ rsp.confRaises
        THEN filter_molecule(withIsomers, molecule)
        ELSE IF ~check_missing_stereo(molecule)
        THEN add_molecule(withIsomers, molecule)
        ELSE withIsomers

RECURSIVE EnumerateStereoisomers_loop(_, _, _, _)
EnumerateStereoisomers_loop(mols, orc, rat, result) ==
    IF mols = << >> THEN result
    ELSE EnumerateStereoisomers_loop(Tail(mols), orc, rat,
             EnumerateStereoisomers_one(Head(mols), orc[Head(mols)], rat,
                                        result))

EnumerateStereoisomers_apply(mols, orc, cch, props, rat) ==
    IF ~HasToolkit(cch)
    THEN [raised |-> TRUE, result |-> _create_result(props)]
    ELSE [raised |-> FALSE,
          result |-> EnumerateStereoisomers_loop(mols, orc, rat,
                                                 _create_result(props))]

\* a toolkit wrapper instance is always truthy
Truthy(handle) == handle \in Providers

\* body of the loop of EnumerateProtomers._apply for one molecule
EnumerateProtomers_one(molecule, rsp, result) ==
    IF rsp.enumRaises
    THEN filter_molecule(result, molecule)
    ELSE add_molecule(AddAll(result, rsp.states), molecule)

RECURSIVE EnumerateProtomers_loop(_, _, _)
EnumerateProtomers_loop(mols, orc, result) ==
    IF mols = << >> THEN result
    ELSE EnumerateProtomers_loop(Tail(mols), orc,
             EnumerateProtomers_one(Head(mols), orc[Head(mols)], result))

EnumerateProtomers_apply(mols, orc, cch, props) ==
    IF ~HasToolkit(cch)
    THEN [raised |-> TRUE, result |-> _create_result(props)]
    ELSE IF Truthy(cch["toolkit"])
    THEN [raised |-> FALSE,
          result |-> EnumerateProtomers_loop(mols, orc, _create_result(props))]
    ELSE [raised |-> FALSE,
          result |-> FilterAll(_create_result(props), Range(mols))]

\* the abstract _apply of a user subclass: it passes on what its own
\* processing yields and filters the molecule when that fails
RECURSIVE Custom_loop(_, _, _)
Custom_loop(mols, orc, result) ==
    IF mols = << >> THEN result
    ELSE LET molecule == Head(mols)
             rsp == orc[molecule]
             r == IF rsp.enumRaises
                  THEN filter_molecule(result, molecule)
                  ELSE AddAll(result, rsp.states)
         IN  Custom_loop(Tail(mols), orc, r)

Custom_apply(mols, orc, props) ==
    [raised |-> FALSE, result |-> Custom_loop(mols, orc, _create_result(props))]

_apply(c, mols, orc, cch, props, rat) ==
    CASE c = "EnumerateTautomers" -> EnumerateTautomers_apply(mols, orc, cch, props)
      [] c = "EnumerateStereoisomers" ->
            EnumerateStereoisomers_apply(mols, orc, cch, props, rat)
      [] c = "EnumerateProtomers" -> EnumerateProtomers_apply(mols, orc, cch, props)
      [] OTHER -> Custom_apply(mols, orc, props)

\* ------------------------------------------------- legacy qcsubmit classes
\* the legacy classes pass their field skip_unique_check to _create_result
legacy_skip_unique_check(c) == c = "EnumerateProtomers"

RECURSIVE LegacyTautomers_loop(_, _, _)
LegacyTautomers_loop(mols, orc, result) ==
    IF mols = << >> THEN result
    ELSE LET molecule == Head(mols)
             rsp == orc[molecule]
             r == IF rsp.enumRaises
                  THEN filter_molecule(result, molecule)
                  ELSE IF Cardinality(rsp.states) = 0
                  THEN add_molecule(result, molecule)
                  ELSE AddAll(result, rsp.states)
         IN  LegacyTautomers_loop(Tail(mols), orc, r)

LegacyTautomers_apply(mols, orc) ==
    LegacyTautomers_loop(mols, orc,
        EmptyResult(legacy_skip_unique_check("EnumerateTautomers")))

RECURSIVE LegacyStereoisomers_loop(_, _, _, _)
LegacyStereoisomers_loop(mols, orc, incl, result) ==
    IF mols = << >> THEN result
    ELSE LET molecule == Head(mols)
             rsp == orc[molecule]
             r == IF rsp.enumRaises
                  THEN filter_molecule(result, molecule)
                  ELSE IF Cardinality(rsp.states) = 0 \/ incl
                  THEN add_molecule(result, molecule)
                  ELSE AddAll(result, rsp.states)
         IN  LegacyStereoisomers_loop(Tail(mols), orc, incl, r)

LegacyStereoisomers_apply(mols, orc, incl) ==
    LegacyStereoisomers_loop(mols, orc, incl,
        EmptyResult(legacy_skip_unique_check("EnumerateStereoisomers")))

\* truth value of the legacy field cache
LegacyTruthy(c) == c \in {"True"} \cup Providers

RECURSIVE LegacyProtomers_loop(_, _, _)
LegacyProtomers_loop(mols, orc, result) ==
    IF mols = << >> THEN result
    ELSE LET molecule == Head(mols)
             rsp == orc[molecule]
             r == IF rsp.enumRaises
                  THEN filter_molecule(result, molecule)
                  ELSE IF Cardinality(rsp.states) = 0
                  THEN add_molecule(result, molecule)
                  ELSE AddAll(result, rsp.states)
         IN  LegacyProtomers_loop(Tail(mols), orc, r)

LegacyProtomers_apply(mols, orc, cch) ==
    LET result == EmptyResult(legacy_skip_unique_check("EnumerateProtomers"))
    IN  IF LegacyTruthy(cch)
        THEN LegacyProtomers_loop(mols, orc, result)
        ELSE [result EXCEPT !.filtered = Range(mols)]

Legacy_apply(c, mols, orc, incl, cch) ==
    CASE c = "EnumerateTautomers" -> LegacyTautomers_apply(mols, orc)
      [] c = "EnumerateStereoisomers" -> LegacyStereoisomers_apply(mols, orc, incl)
      [] OTHER -> LegacyProtomers_apply(mols, orc, cch)

\* ------------------------------------------------------------------ state
VARIABLES
    cls,          \* class of the component
    props,        \* what its properties() returns
    installed,    \* providers importable in this environment
    toolkit,      \* configuration field toolkit
    rationalise,  \* configuration field rationalise
    _cache,       \* private transient cache (a dictionary)
    oracle,       \* toolkit answers given so far, per identity
    pc,           \* "new", "invalid", "idle", "init", "seq", "pool"
    molecules,    \* the caller's list of molecules, argument of apply
    processors,   \* argument of the running apply
    result,       \* the result the running apply accumulates
    work_list,    \* pool mode: the submitted units
    nxt,          \* index of the next unit to run (seq) or collect (pool)
    calls,        \* outcome of every apply call so far, oldest first
    err,          \* the last exception that reached the caller
    avail,        \* outcome of the last is_available() call
    impl,         \* package of the class: "openff" or the legacy "qcsubmit"
    include_input,\* legacy configuration field include_input
    cache,        \* legacy configuration field cache
    conformers,   \* conformers held by the caller's molecule objects
    applied,      \* the _apply invocations of the running apply that ended
    trace         \* what the running apply itself has done so far, in order

vars == <<cls, props, installed, toolkit, rationalise, _cache, oracle, pc,
          molecules, processors, result, work_list, nxt, calls, err, avail,
          impl, include_input, cache, conformers, applied, trace>>

legacyVars == <<impl, include_input, cache>>

\* the attributes of self a hook can read and assign
selfVars == <<toolkit, rationalise, include_input, cache, _cache>>

EmptyDict == [k \in {} |-> ""]
ProcessorChoices == {None, 1, 2}

InputLists == UNION {[1..n -> Ids] : n \in 0..MaxMols}

Queued == [st |-> "queued", raised |-> FALSE, result |-> EmptyResult(FALSE)]

NoConformers == [m \in AllIds |-> 0]

Ev(name, unit) == [ev |-> name, unit |-> unit]

Init ==
    /\ cls \in Classes
    /\ props \in (IF cls \in EnumeratorClasses
                  THEN {properties(cls)}
                  ELSE [process_parallel : BOOLEAN, produces_duplicates : BOOLEAN])
    /\ installed \in (IF cls \in EnumeratorClasses
                      THEN SUBSET Providers ELSE {Providers})
    /\ toolkit = "openeye"
    /\ rationalise = TRUE
    /\ _cache = EmptyDict
    /\ oracle = [m \in AllIds |-> Unknown]
    /\ pc = "new"
    /\ molecules = NoMolecules
    /\ processors = None
    /\ result = EmptyResult(FALSE)
    /\ work_list = << >>
    /\ nxt = 1
    /\ calls = << >>
    /\ err = "none"
    /\ avail = "not called"
    /\ impl = "openff"
    /\ include_input = FALSE
    /\ cache = "None"
    /\ conformers = NoConformers
    /\ applied = << >>
    /\ trace = << >>

\* ---------------------------------------------------------- configuration
\* construction of the component: the validator runs on the toolkit value
Construct(t, rat) ==
    /\ pc = "new"
    /\ cls # "EnumerateStereoisomers" => rat = TRUE
    /\ IF _check_toolkit(cls, t)
       THEN /\ pc' = "idle"
            /\ toolkit' = t
            /\ rationalise' = rat
            /\ err' = err
       ELSE /\ pc' = "invalid"
            /\ err' = "ValueError"
            /\ UNCHANGED <<toolkit, rationalise>>
    /\ UNCHANGED <<legacyVars, cls, props, installed, _cache, oracle, molecules, processors,
                   result, work_list, nxt, calls, avail, conformers, applied, trace>>

\* assignment to the field toolkit (validate_assignment = True)
SetToolkit(t) ==
    /\ pc = "idle"
    /\ t # toolkit
    /\ _check_toolkit(cls, t) => calls = << >>
    /\ IF _check_toolkit(cls, t)
       THEN toolkit' = t /\ err' = err
       ELSE toolkit' = toolkit /\ err' = "ValueError"
    /\ UNCHANGED <<legacyVars, cls, props, installed, rationalise, _cache, oracle, pc,
                   molecules, processors, result, work_list, nxt, calls, avail,
                   conformers, applied, trace>>

\* qcelemental's which_import(..., return_bool=True, raise_error=...)
which_import(name, raise_error) ==
    IF name \in installed THEN "True"
    ELSE IF raise_error THEN "raise" ELSE "False"

\* the loop of ToolkitValidator.is_available over the registry
RECURSIVE is_available_loop(_, _)
is_available_loop(tks, raise_error) ==
    IF tks = << >> THEN "raise ModuleNotFoundError"
    ELSE LET found == which_import(Head(tks), raise_error)
         IN  IF found = "True" THEN "True"
             ELSE IF found = "raise" THEN "raise which_import"
             ELSE is_available_loop(Tail(tks), raise_error)

is_available_returnsFalse(c) ==
    LET raise_error == Len(_toolkits(c)) = 1
        found == is_available_loop(_toolkits(c), raise_error)
    IN  IF found = "raise ModuleNotFoundError" THEN "False" ELSE found

is_available(c) ==
    LET raise_error == Len(_toolkits(c)) = 1
    IN  is_available_loop(_toolkits(c), raise_error)

IsAvailable ==
    /\ pc = "new"
    /\ avail = "not called"
    /\ avail' = is_available(cls)
    /\ UNCHANGED <<legacyVars, cls, props, installed, toolkit, rationalise, _cache, oracle,
                   pc, molecules, processors, result, work_list, nxt, calls, err,
                   conformers, applied, trace>>

\* ------------------------------------------------------------------ hooks
\* the component as a hook sees it
Self ==
    [toolkit |-> toolkit, rationalise |-> rationalise,
     include_input |-> include_input, cache |-> cache, _cache |-> _cache]

\* what a hook has assigned becomes the state of the component
SetSelf(s) ==
    /\ toolkit' = s.toolkit
    /\ rationalise' = s.rationalise
    /\ include_input' = s.include_input
    /\ cache' = s.cache
    /\ _cache' = s._cache

\* CustomWorkflowComponent._apply_init: self._cache.clear()
Base_apply_init(self) == [self EXCEPT !._cache = EmptyDict]

\* the override of the three enumerators:
\* self._cache["toolkit"] = self._toolkits[self.toolkit]()
Enumerator_apply_init(self) ==
    [self EXCEPT !._cache = ("toolkit" :> self.toolkit) @@ @]

_apply_init_declaredField(c, self) ==
    IF c \in EnumeratorClasses
    THEN [self EXCEPT !.cache = self.toolkit,
                      !._cache = ("toolkit" :> self.toolkit) @@ @]
    ELSE Base_apply_init(self)

_apply_init(c, self) ==
    IF c \in EnumeratorClasses
    THEN Enumerator_apply_init(self)
    ELSE Base_apply_init(self)

\* the constructor of a toolkit wrapper raises when its toolkit is missing
_apply_init_swallowed(c, self, inst) == FALSE

_apply_init_raises(c, self, inst) ==
    c \in EnumeratorClasses /\ self.toolkit \notin inst

\* CustomWorkflowComponent._apply_finalize: self._cache.clear()
_apply_finalize_keepsCache(self) == self

_apply_finalize(self) == [self EXCEPT !._cache = EmptyDict]

\* the hooks of the legacy classes: EnumerateStereoisomers keeps the toolkit
\* in its field cache, EnumerateProtomers leaves its field cache alone
Legacy_apply_init(c, self) ==
    IF c = "EnumerateStereoisomers"
    THEN [self EXCEPT !.cache = self.toolkit]
    ELSE self

Legacy_apply_finalize(c, self) ==
    IF c = "EnumerateStereoisomers"
    THEN [self EXCEPT !.cache = "None"]
    ELSE self

\* ------------------------------------------------------------------ apply
CallRecord(outcome, e) ==
    [outcome |-> outcome, exc |-> e, pooled |-> (pc = "pool"),
     passed |-> IF outcome = "returned" THEN result.passed ELSE {},
     filtered |-> IF outcome = "returned" THEN result.filtered ELSE {},
     merged |-> IF outcome = "returned" THEN result.merged ELSE {},
     trace |-> IF outcome = "returned"
               THEN Append(trace, Ev("teardown", 0)) ELSE << >>]

\* apply raises: the exception reaches the caller, the locals are gone
Raise(e) ==
    /\ pc' = "idle"
    /\ err' = e
    /\ calls' = Append(calls, CallRecord("raised", e))
    /\ processors' = None
    /\ result' = EmptyResult(FALSE)
    /\ work_list' = << >>
    /\ nxt' = 1
    /\ applied' = << >>
    /\ trace' = << >>

\* result = self._create_result(): what earlier calls returned plays no part
FreshResult_carriedOver(earlier, pr) ==
    IF earlier = << >> THEN _create_result(pr)
    ELSE [_create_result(pr) EXCEPT
              !.passed = earlier[Len(earlier)].passed,
              !.filtered = earlier[Len(earlier)].filtered]

FreshResult(earlier, pr) == _create_result(pr)

\* apply is entered: result = self._create_result(); a caller that was
\* interrupted makes no further call
Apply(mols, procs) ==
    /\ pc = "idle"
    /\ calls # << >> => calls[Len(calls)].exc # "KeyboardInterrupt"
    /\ Len(calls) < MaxCalls
    /\ calls # << >> => mols = molecules
    /\ pc' = "init"
    /\ molecules' = mols
    /\ processors' = procs
    /\ result' = FreshResult(calls, props)
    /\ nxt' = 1
    /\ work_list' = << >>
    /\ applied' = << >>
    /\ trace' = <<Ev("create", 0)>>
    /\ UNCHANGED <<legacyVars, cls, props, installed, toolkit, rationalise, _cache, oracle,
                   calls, err, avail, conformers>>

\* the test of apply that selects the pool
UsesPool_ignoresProperty(procs, pr) == procs = None \/ procs > 1

UsesPool(procs, pr) ==
    /\ (procs = None \/ procs > 1)
    /\ pr.process_parallel

\* the units of work: [molecule] for molecule in molecules
Batches_wholeList(mols) == IF mols = << >> THEN << >> ELSE <<mols>>

Batches(mols) == [i \in 1..Len(mols) |-> <<mols[i]>>]

\* self._apply_init(result), then the choice of the mode and, with a pool,
\* the submission of one unit per molecule
ApplyInit ==
    /\ pc = "init"
    /\ IF _apply_init_raises(cls, Self, installed)
       THEN /\ Raise("ToolkitUnavailableException")
            /\ UNCHANGED selfVars
       ELSE /\ SetSelf(_apply_init(cls, Self))
            /\ pc' = IF UsesPool(processors, props) THEN "pool" ELSE "seq"
            /\ work_list' = IF UsesPool(processors, props)
                            THEN [i \in DOMAIN Batches(molecules) |-> Queued]
                            ELSE << >>
            /\ trace' = Append(trace, Ev("setup", 0))
            /\ UNCHANGED <<processors, result, nxt, calls, err, applied>>
    /\ UNCHANGED <<impl, cls, props, installed, oracle, molecules, avail,
                   conformers>>

\* the toolkit answers for molecule m: a new answer is chosen, a known one
\* is repeated; generate_conformers is only called under rationalise
Answers(orc, m) ==
    IF orc[m].known THEN {orc[m]}
    ELSE {r \in Responses(cls, Ids) : r.confRaises => rationalise}

\* the toolkit answers after the molecules of one unit have been processed
RECURSIVE BatchAnswers(_, _)
BatchAnswers(batch, orc) ==
    IF batch = << >> THEN {orc}
    ELSE UNION {BatchAnswers(Tail(batch), [orc EXCEPT ![Head(batch)] = r]) :
                   r \in Answers(orc, Head(batch))}

\* molecule.generate_conformers(n_conformers=1) of EnumerateStereoisomers
\* acts on the molecule objects _apply was handed
ConformersAfter(c, batch, orc, cch, rat, conf) ==
    [m \in AllIds |->
        IF /\ c = "EnumerateStereoisomers"
           /\ m \in Range(batch)
           /\ HasToolkit(cch)
           /\ rat
           /\ ~orc[m].enumRaises
           /\ ~orc[m].confRaises
        THEN 1
        ELSE conf[m]]

\* the two merge loops of apply over one unit's result
Merge(res, work) == FilterAll(AddAll(res, work.passed), work.filtered)

\* sequential mode: one iteration of the loop over molecules; _apply is
\* handed the caller's molecule object itself
SeqUnit ==
    /\ pc = "seq"
    /\ nxt <= Len(Batches(molecules))
    /\ \E orc \in BatchAnswers(Batches(molecules)[nxt], oracle) :
         LET batch == Batches(molecules)[nxt]
             work == _apply(cls, batch, orc, _cache, props, rationalise)
         IN  /\ oracle' = orc
             /\ conformers' = ConformersAfter(cls, batch, orc, _cache,
                                              rationalise, conformers)
             /\ IF work.raised
                THEN Raise("KeyError")
                ELSE /\ result' = Merge(result, work.result)
                     /\ nxt' = nxt + 1
                     /\ applied' = Append(applied,
                                          [unit |-> nxt, size |-> Len(batch)])
                     /\ trace' = Append(trace, Ev("merge", nxt))
                     /\ UNCHANGED <<pc, processors, work_list, calls, err>>
    /\ UNCHANGED <<legacyVars, cls, props, installed, toolkit, rationalise, _cache,
                   molecules, avail>>

\* the cache of the copy of self a pool worker receives with self._apply
WorkerCache_notCopied(cch) == EmptyDict

WorkerCache(cch) == cch

\* pool mode: some worker runs the unit i to its end, on the pickled copy
\* of the unit it received
WorkerFinish(i) ==
    /\ pc = "pool"
    /\ i \in DOMAIN work_list
    /\ work_list[i].st = "queued"
    /\ \E orc \in BatchAnswers(Batches(molecules)[i], oracle) :
         LET batch == Batches(molecules)[i]
             work == _apply(cls, batch, orc, WorkerCache(_cache), props,
                            rationalise)
         IN  /\ oracle' = orc
             /\ work_list' = [work_list EXCEPT ![i] =
                    [st |-> "finished", raised |-> work.raised,
                     result |-> work.result]]
             /\ applied' = Append(applied, [unit |-> i, size |-> Len(batch)])
    /\ UNCHANGED <<legacyVars, cls, props, installed, toolkit, rationalise, _cache, pc,
                   molecules, processors, result, nxt, calls, err, avail,
                   conformers, trace>>

\* for work in work_list: the n-th unit collected is the n-th submitted
NextToCollect_completionOrder(n, done) ==
    IF Len(done) >= n THEN done[n].unit ELSE n

NextToCollect(n, done) == n

\* work.get() has no timeout: it returns once the unit has run to its end
Ready_givesUp(work) == work.st \in {"finished", "hung"}

Ready(work) == work.st = "finished"

\* pool mode: work.get() on the next unit of work_list, then the merge
Collect ==
    /\ pc = "pool"
    /\ nxt <= Len(work_list)
    /\ LET k == NextToCollect(nxt, applied)
       IN  /\ Ready(work_list[k])
           /\ IF work_list[k].raised
              THEN Raise("KeyError")
              ELSE /\ result' = Merge(result, work_list[k].result)
                   /\ nxt' = nxt + 1
                   /\ trace' = Append(trace, Ev("merge", k))
                   /\ UNCHANGED <<pc, processors, work_list, calls, err, applied>>
    /\ UNCHANGED <<legacyVars, cls, props, installed, toolkit, rationalise, _cache, oracle,
                   molecules, avail, conformers>>

\* an exception that is not an Exception (KeyboardInterrupt) is raised
\* while apply runs: no except clause catches it and apply has no finally
Interrupt ==
    /\ pc \in {"init", "seq", "pool"}
    /\ Raise("KeyboardInterrupt")
    /\ UNCHANGED <<selfVars, impl, cls, props, installed, oracle, molecules,
                   avail, conformers>>

\* the loop over the units has run to its end
LoopDone_early(n, units) == n >= 1

LoopDone(n, units) == n = units + 1

\* self._apply_finalize(result); return result
ApplyFinalize ==
    /\ pc \in {"seq", "pool"}
    /\ LoopDone(nxt, Len(Batches(molecules)))
    /\ SetSelf(_apply_finalize(Self))
    /\ pc' = "idle"
    /\ calls' = Append(calls, CallRecord("returned", "none"))
    /\ processors' = None
    /\ result' = EmptyResult(FALSE)
    /\ work_list' = << >>
    /\ nxt' = 1
    /\ applied' = << >>
    /\ trace' = << >>
    /\ UNCHANGED <<impl, cls, props, installed, oracle, molecules, err, avail,
                   conformers>>

Next ==
    \/ \E t \in RequestedToolkits, rat \in BOOLEAN : Construct(t, rat)
    \/ \E t \in RequestedToolkits : SetToolkit(t)
    \/ IsAvailable
    \/ \E mols \in InputLists, procs \in ProcessorChoices : Apply(mols, procs)
    \/ ApplyInit
    \/ SeqUnit
    \/ \E i \in 1..MaxMols : WorkerFinish(i)
    \/ Collect
    \/ Interrupt
    \/ ApplyFinalize

Spec == Init /\ [][Next]_vars

\* ------------------------------------------------------- workers that hang
\* A third specification: a pool worker may stop for good inside its unit
\* (a toolkit call that never comes back); whatever can proceed does. Every
\* provider is installed, so that the units do run.
HangInit == Init /\ installed = Providers

WorkerHangs(i) ==
    /\ pc = "pool"
    /\ i \in DOMAIN work_list
    /\ work_list[i].st = "queued"
    /\ work_list' = [work_list EXCEPT ![i].st = "hung"]
    /\ UNCHANGED <<legacyVars, cls, props, installed, toolkit, rationalise, _cache, pc,
                   oracle, molecules, processors, result, nxt, calls, err, avail,
                   conformers, applied, trace>>

HangNext ==
    \/ Next
    \/ \E i \in 1..MaxMols : WorkerHangs(i)

HangSpec ==
    /\ HangInit
    /\ [][HangNext]_vars
    /\ WF_vars(ApplyInit)
    /\ WF_vars(SeqUnit)
    /\ \A i \in 1..MaxMols : WF_vars(WorkerFinish(i))
    /\ WF_vars(Collect)
    /\ WF_vars(ApplyFinalize)

\* ------------------------------------------------- one unit of work alone
\* A second specification: the hooks and one _apply call of an enumerator
\* of either package on a list of molecules.
UnitAnswers(mols) ==
    {[m \in AllIds |-> IF m \in Range(mols) THEN f[m] ELSE Unknown] :
        f \in [Range(mols) ->
                 {r \in Responses(cls, UnitIds) : r.confRaises => rationalise}]}

UnitInputLists == UNION {[1..n -> UnitIds] : n \in 0..UnitMaxMols}

UnitInit ==
    /\ impl \in {"openff", "qcsubmit"}
    /\ cls \in EnumeratorClasses
    /\ props = properties(cls)
    /\ installed = Providers
    /\ toolkit \in Keys(cls)
    /\ rationalise \in (IF cls = "EnumerateStereoisomers" THEN BOOLEAN ELSE {TRUE})
    /\ include_input \in (IF impl = "qcsubmit" /\ cls = "EnumerateStereoisomers"
                          THEN BOOLEAN ELSE {FALSE})
    /\ cache \in (IF impl = "qcsubmit" /\ cls = "EnumerateProtomers"
                  THEN {"False", "True"} ELSE {"None"})
    /\ _cache = EmptyDict
    /\ oracle = [m \in AllIds |-> Unknown]
    /\ pc = "unit init"
    /\ molecules \in UnitInputLists
    /\ processors = 1
    /\ result = EmptyResult(FALSE)
    /\ work_list = << >>
    /\ nxt = 1
    /\ calls = << >>
    /\ err = "none"
    /\ avail = "not called"
    /\ conformers = NoConformers
    /\ applied = << >>
    /\ trace = << >>

\* the setup hook of the class
UnitApplyInit ==
    /\ pc = "unit init"
    /\ pc' = "unit apply"
    /\ SetSelf(IF impl = "openff"
               THEN _apply_init(cls, Self)
               ELSE Legacy_apply_init(cls, Self))
    /\ UNCHANGED <<cls, props, installed, oracle, molecules, processors,
                   result, work_list, nxt, calls, err, avail, impl,
                   conformers, applied, trace>>

\* self._apply(molecules)
UnitApply ==
    /\ pc = "unit apply"
    /\ pc' = "unit done"
    /\ \E orc \in UnitAnswers(molecules) :
         /\ oracle' = orc
         /\ result' = IF impl = "openff"
                      THEN _apply(cls, molecules, orc, _cache, props,
                                  rationalise).result
                      ELSE Legacy_apply(cls, molecules, orc, include_input,
                                        cache)
         /\ conformers' = IF impl = "openff"
                          THEN ConformersAfter(cls, molecules, orc, _cache,
                                               rationalise, conformers)
                          ELSE conformers
    /\ UNCHANGED <<cls, props, installed, toolkit, rationalise, _cache,
                   molecules, processors, work_list, nxt, calls, err, avail,
                   legacyVars, applied, trace>>

\* the teardown hook of the class
UnitApplyFinalize ==
    /\ pc = "unit done"
    /\ pc' = "unit finalized"
    /\ SetSelf(IF impl = "openff"
               THEN _apply_finalize(Self)
               ELSE Legacy_apply_finalize(cls, Self))
    /\ UNCHANGED <<cls, props, installed, oracle, molecules, processors,
                   result, work_list, nxt, calls, err, avail, impl,
                   conformers, applied, trace>>

UnitNext == UnitApplyInit \/ UnitApply \/ UnitApplyFinalize

UnitSpec == UnitInit /\ [][UnitNext]_vars

\* ------------------------------------------------------ claims, vocabulary
Inputs == Range(molecules)

\* the processing of molecule m raises inside the try block of _apply
Fails(m) ==
    /\ oracle[m].known
    /\ \/ oracle[m].enumRaises
       \/ cls = "EnumerateStereoisomers" /\ rationalise /\ oracle[m].confRaises

Returned(k) == calls[k].outcome = "returned"

\* an input of EnumerateStereoisomers that is dropped without being filtered
SilentlyDropped(m) ==
    cls = "EnumerateStereoisomers" /\ m \in UndefinedStereo /\ ~Fails(m)

\* C1 as stated: after apply completes on an enumerator every input
\* molecule is in exactly one of passed and filtered
C1_ExactlyOne ==
    \A k \in DOMAIN calls :
        (cls \in EnumeratorClasses /\ Returned(k)) =>
            \A m \in Inputs : (m \in calls[k].passed) # (m \in calls[k].filtered)

\* C1 amended: after apply completes on an enumerator an input molecule is
\* in filtered exactly when its processing raised; an input whose processing
\* did not raise is in passed, except an input of EnumerateStereoisomers
\* with undefined stereochemistry, which is in neither collection
C1_Accounted ==
    \A k \in DOMAIN calls :
        (cls \in EnumeratorClasses /\ Returned(k)) =>
            \A m \in Inputs :
                /\ m \in calls[k].filtered <=> Fails(m)
                /\ ~Fails(m) => (m \in calls[k].passed <=> ~SilentlyDropped(m))

C1_Witness ==
    /\ cls = "EnumerateStereoisomers"
    /\ Len(calls) >= 1
    /\ Returned(1)
    /\ \E m \in Inputs : SilentlyDropped(m) /\ oracle[m].states # {}
    /\ \E m \in Inputs : Fails(m)

Emits(m) ==
    IF cls = "EnumerateStereoisomers"
    THEN {i \in oracle[m].states \cup {m} : i \notin UndefinedStereo}
    ELSE oracle[m].states \cup {m}

C3_FailureIsLocal ==
    \A k \in DOMAIN calls :
        cls \in EnumeratorClasses =>
            /\ toolkit \notin installed => ~Returned(k)
            /\ ~Returned(k) =>
                   \/ toolkit \notin installed
                   \/ calls[k].exc = "KeyboardInterrupt"
            /\ Returned(k) =>
                \A m \in Inputs :
                    /\ Fails(m) => m \in calls[k].filtered
                    /\ ~Fails(m) =>
                        \A i \in Emits(m) :
                            \/ i \in calls[k].passed
                            \/ i \in Inputs /\ Fails(i)

C3_Witness ==
    /\ cls \in EnumeratorClasses
    /\ Len(calls) = 2
    /\ Returned(1) /\ Returned(2)
    /\ calls[1].pooled # calls[2].pooled
    /\ \E m1, m2 \in Inputs : Fails(m1) /\ ~Fails(m2) /\ oracle[m2].states # {}

\* C4 as stated: when the processing of the one molecule of a unit raises,
\* the unit's result has that molecule in filtered and nothing in passed
C4_WholeMoleculeRejected ==
    (pc = "unit done" /\ impl = "openff" /\ Len(molecules) = 1) =>
        (Fails(molecules[1]) =>
            /\ result.filtered = {molecules[1]}
            /\ result.passed = {})

\* C5 as stated: for a component that declares produces_duplicates=False the
\* unique check of the result is active, and repeats are merged only for a
\* component that declares produces_duplicates=True
UniqueCheckActive(r) == ~r.skip_unique_check

C5_CheckActiveWithoutDuplicates ==
    /\ (pc \in {"init", "seq", "pool"} /\ ~props.produces_duplicates) =>
           UniqueCheckActive(result)
    /\ \A k \in DOMAIN calls : calls[k].merged # {} => props.produces_duplicates

\* C5 amended: the unique check of the result created by _create_result is
\* active exactly for a component that declares produces_duplicates=True
\* and is skipped for one that declares produces_duplicates=False; repeated
\* identities are merged only under produces_duplicates=True
C5_CheckFollowsDuplicates ==
    /\ pc \in {"init", "seq", "pool"} =>
           (UniqueCheckActive(result) <=> props.produces_duplicates)
    /\ pc \in {"seq", "pool"} /\ ~props.produces_duplicates =>
           result.merged = {}
    /\ \A k \in DOMAIN calls : calls[k].merged # {} => props.produces_duplicates

C5_Witness ==
    /\ ~props.produces_duplicates
    /\ pc = "seq"
    /\ Len(molecules) = 2
    /\ molecules[1] = molecules[2]
    /\ nxt = 3
    /\ molecules[1] \in result.passed

\* C6: for a component with process_parallel=True, a sequential call and a
\* call through the pool on the same input, neither of them interrupted,
\* end alike and return the same passed identities and the same filtered
\* identities
C6_ParallelSequentialEquivalence ==
    \A j, k \in DOMAIN calls :
        (/\ calls[j].pooled # calls[k].pooled
         /\ calls[j].exc # "KeyboardInterrupt"
         /\ calls[k].exc # "KeyboardInterrupt") =>
            /\ calls[j].outcome = calls[k].outcome
            /\ calls[j].passed = calls[k].passed
            /\ calls[j].filtered = calls[k].filtered

C6_Witness ==
    /\ Len(calls) = 2
    /\ Returned(1) /\ Returned(2)
    /\ calls[1].pooled # calls[2].pooled
    /\ Len(molecules) = 2
    /\ molecules[1] # molecules[2]
    /\ calls[1].passed # {}
    /\ calls[1].filtered # {}

\* C7 as stated: when OpenEye is unavailable, apply of EnumerateProtomers
\* does not raise and returns every input molecule in filtered and nothing
\* in passed; when it is available no molecule is filtered unless its own
\* enumeration raised
C7_UnavailableProviderFiltersAll ==
    \A k \in DOMAIN calls :
        cls = "EnumerateProtomers" =>
            IF "openeye" \notin installed
            THEN /\ Returned(k)
                 /\ calls[k].filtered = Inputs
                 /\ calls[k].passed = {}
            ELSE /\ Returned(k)
                 /\ \A m \in calls[k].filtered : Fails(m)

\* C8 as stated: EnumerateTautomers, when the enumeration of its molecule
\* does not raise, passes every tautomer and the input and filters nothing
TautomersPlusInput(m) ==
    /\ result.passed = oracle[m].states \cup {m}
    /\ result.filtered = {}
    /\ m \notin oracle[m].states =>
           Cardinality(result.passed) = Cardinality(oracle[m].states) + 1
    /\ oracle[m].states = {} => result.passed = {m}

C8_AlwaysAddsInput ==
    (pc = "unit done" /\ cls = "EnumerateTautomers" /\ Len(molecules) = 1) =>
        (~Fails(molecules[1]) => TautomersPlusInput(molecules[1]))

\* C8 amended: the openff.qcsubmit EnumerateTautomers, when the enumeration
\* does not raise, passes every tautomer and the input and filters nothing
\* (k tautomers other than the input give k+1 entries); the legacy qcsubmit
\* EnumerateTautomers adds the input only when no tautomer is returned
C8_OpenffAddsInput ==
    (pc = "unit done" /\ cls = "EnumerateTautomers" /\ Len(molecules) = 1
        /\ ~Fails(molecules[1])) =>
        IF impl = "openff"
        THEN TautomersPlusInput(molecules[1])
        ELSE /\ result.filtered = {}
             /\ result.passed = IF oracle[molecules[1]].states = {}
                                THEN {molecules[1]}
                                ELSE oracle[molecules[1]].states

C8_Witness ==
    /\ pc = "unit done"
    /\ impl = "openff"
    /\ cls = "EnumerateTautomers"
    /\ Len(molecules) = 1
    /\ ~Fails(molecules[1])
    /\ molecules[1] \notin oracle[molecules[1]].states
    /\ Cardinality(oracle[molecules[1]].states) = 3
    /\ Cardinality(result.passed) = 4

\* C9: a provider name outside the registry of the class is rejected with
\* an error at construction and at assignment, so the toolkit of a component
\* and the handle in its cache are always registered providers of its class
Registered ==
    IF cls = "EnumerateProtomers" THEN {"openeye"} ELSE {"rdkit", "openeye"}

C9_ToolkitRegistered ==
    /\ pc # "invalid" => toolkit \in Registered
    /\ pc = "invalid" => err = "ValueError" /\ calls = << >>
    /\ "toolkit" \in DOMAIN _cache => _cache["toolkit"] \in Registered

C9_Witness ==
    /\ cls = "EnumerateProtomers"
    /\ pc = "idle"
    /\ err = "ValueError"
    /\ Len(calls) = 1
    /\ Returned(1)
    /\ molecules # << >>

C11_CacheScopedToCall ==
    pc = "idle" => _cache = EmptyDict

\* C11 amended: the setup hook initialises the cache before any unit is
\* processed (empty for the base class, the toolkit handle for an
\* enumerator) and the teardown hook empties it, so it is empty after apply
\* has returned; when an exception escapes apply after the setup hook the
\* teardown hook does not run and the cache keeps the toolkit handle
C11_CacheClearedOnReturn ==
    /\ pc \in {"seq", "pool"} =>
           _cache = (IF cls \in EnumeratorClasses
                     THEN "toolkit" :> toolkit ELSE EmptyDict)
    /\ (pc = "idle" /\ calls # << >> /\ Returned(Len(calls))) =>
           _cache = EmptyDict
    /\ (pc = "idle" /\ _cache # EmptyDict) =>
           /\ calls # << >>
           /\ calls[Len(calls)].exc = "KeyboardInterrupt"
           /\ _cache = "toolkit" :> toolkit

C11_Witness ==
    /\ pc = "idle"
    /\ Len(calls) = 2
    /\ Returned(1)
    /\ calls[1].passed # {}
    /\ calls[2].exc = "KeyboardInterrupt"
    /\ HasToolkit(_cache)

\* C12: an exception of the setup hook reaches the caller of apply before
\* any molecule is dispatched, and the caller gets a result only from a call
\* that has merged every unit: a call that raised hands over nothing
C12_AllOrNothing ==
    /\ pc = "init" => applied = << >> /\ result = _create_result(props)
    /\ (cls \in EnumeratorClasses /\ toolkit \notin installed) =>
           /\ oracle = [m \in AllIds |-> Unknown]
           /\ pc \notin {"seq", "pool"}
    /\ \A k \in DOMAIN calls :
           /\ (cls \in EnumeratorClasses /\ toolkit \notin installed) =>
                  calls[k].exc \in {"ToolkitUnavailableException",
                                    "KeyboardInterrupt"}
           /\ calls[k].exc = "ToolkitUnavailableException" =>
                  toolkit \notin installed
           /\ Returned(k) =>
                  /\ calls[k].exc = "none"
                  /\ {i \in 1..Len(molecules) :
                         Ev("merge", i) \in Range(calls[k].trace)}
                     = 1..Len(molecules)
           /\ ~Returned(k) =>
                  /\ calls[k].exc # "none"
                  /\ calls[k].passed = {}
                  /\ calls[k].filtered = {}

C12_Witness ==
    /\ pc = "idle"
    /\ Len(calls) = 1
    /\ calls[1].exc = "ToolkitUnavailableException"
    /\ Len(molecules) = 2
    /\ oracle = [m \in AllIds |-> Unknown]

\* C13: every apply call starts from a fresh result: two calls of one
\* component on the same input that both return give the same passed, the
\* same filtered and the same merged identities, and every passed identity
\* of an enumerator is one this call's own units emitted
C13_RerunIsIdentical ==
    /\ \A j, k \in DOMAIN calls :
           (Returned(j) /\ Returned(k)) =>
               /\ calls[j].passed = calls[k].passed
               /\ calls[j].filtered = calls[k].filtered
               /\ calls[j].merged = calls[k].merged
    /\ \A k \in DOMAIN calls :
           (Returned(k) /\ cls \in EnumeratorClasses) =>
               /\ calls[k].passed \subseteq UNION {Emits(m) : m \in Inputs}
               /\ calls[k].filtered \subseteq Inputs

C13_Witness ==
    /\ Len(calls) = 2
    /\ Returned(1) /\ Returned(2)
    /\ calls[1].pooled = calls[2].pooled
    /\ calls[2].passed # {}
    /\ calls[2].filtered # {}
    /\ calls[2].merged # {}

\* C14: apply runs the units in a pool exactly when the component declares
\* process_parallel=True and processors is None or greater than 1; in every
\* other case it runs them in the calling process and submits nothing
C14_PoolIffParallel ==
    /\ pc = "pool" =>
           /\ props.process_parallel
           /\ processors = None \/ processors > 1
           /\ Len(work_list) = Len(molecules)
    /\ pc = "seq" =>
           /\ ~props.process_parallel \/ (processors # None /\ processors <= 1)
           /\ work_list = << >>
    /\ \A k \in DOMAIN calls : calls[k].pooled => props.process_parallel

C14_Witness ==
    /\ pc = "seq"
    /\ ~props.process_parallel
    /\ processors = None
    /\ Len(molecules) = 2
    /\ nxt = 3
    /\ Len(calls) = 1
    /\ Returned(1)

\* the declared configuration fields of the component
Declared == <<toolkit, rationalise, include_input, cache>>

\* C15 as stated: no step of the setup hook, of _apply or of the teardown
\* hook changes a declared configuration field
C15_ConfigurationUntouched ==
    [][Declared' = Declared]_vars

\* C15 amended: the hooks and _apply of the openff.qcsubmit enumerators
\* change no declared field, they write the private cache only; the legacy
\* EnumerateStereoisomers keeps its toolkit handle in the declared field
\* cache, which its setup hook sets and its teardown hook resets to None
C15_OnlyLegacyCacheWritten ==
    [][/\ impl = "openff" => Declared' = Declared
       /\ impl = "qcsubmit" =>
             /\ <<toolkit, rationalise, include_input>>'
                    = <<toolkit, rationalise, include_input>>
             /\ _cache' = _cache
             /\ cache' # cache =>
                    /\ cls = "EnumerateStereoisomers"
                    /\ \/ pc = "unit init" /\ cache' = toolkit
                       \/ pc = "unit done" /\ cache' = "None"]_vars

C15_Witness ==
    /\ pc = "unit finalized"
    /\ impl = "openff"
    /\ cls = "EnumerateStereoisomers"
    /\ rationalise
    /\ result.passed # {}
    /\ _cache = EmptyDict
    /\ cache = "None"

\* C16 as stated: apply leaves the molecule objects the caller passed in as
\* they were; no conformer is added to any of them
C16_InputsUnchanged ==
    conformers = NoConformers

\* the units merged so far, in the order of their merge
MergedUnits(tr) ==
    LET merges == SelectSeq(tr, LAMBDA e : e.ev = "merge")
    IN  [n \in 1..Len(merges) |-> merges[n].unit]

\* C17 as stated: in pool mode the units are merged in the order in which
\* they finish
C17_MergedInCompletionOrder ==
    pc = "pool" =>
        \A n \in 1..Len(MergedUnits(trace)) :
            MergedUnits(trace)[n] = applied[n].unit

\* C17 amended: in pool mode too the units are merged in issue order: the
\* n-th merge is that of the n-th input molecule, whatever the order in
\* which the units finish, and a unit that finished early waits for every
\* unit submitted before it
C17_MergedInIssueOrder ==
    /\ pc \in {"seq", "pool"} =>
           /\ Len(MergedUnits(trace)) = nxt - 1
           /\ \A n \in 1..Len(MergedUnits(trace)) : MergedUnits(trace)[n] = n
    /\ \A k \in DOMAIN calls :
           \A n \in 1..Len(MergedUnits(calls[k].trace)) :
               MergedUnits(calls[k].trace)[n] = n

C17_Witness ==
    /\ pc = "pool"
    /\ Len(molecules) = 2
    /\ Len(applied) = 2
    /\ applied[1].unit = 2
    /\ applied[2].unit = 1
    /\ MergedUnits(trace) = <<1, 2>>
    /\ result.filtered # {}

\* C18 as stated: when the enumeration of the one molecule of a unit of
\* EnumerateStereoisomers does not raise, an isomer is in passed exactly
\* when it has no missing stereochemistry, the input is in passed exactly
\* when it has none, and nothing is filtered
StereoOutcome(m) ==
    /\ \A i \in oracle[m].states \cup {m} :
           /\ i \in result.passed <=> ~check_missing_stereo(i)
           /\ check_missing_stereo(i) => i \notin result.filtered
    /\ result.passed \subseteq oracle[m].states \cup {m}
    /\ m \notin result.filtered

C18_WhenEnumerationSucceeds ==
    (/\ pc = "unit done" /\ impl = "openff"
     /\ cls = "EnumerateStereoisomers" /\ Len(molecules) = 1
     /\ ~oracle[molecules[1]].enumRaises) =>
        StereoOutcome(molecules[1])

\* C18 amended: the same outcome whenever neither the enumeration nor,
\* under rationalise=True, the conformer generation raises; when the
\* conformer generation raises the input is filtered whatever its
\* stereochemistry and the isomers already added stay in passed
C18_WhenProcessingSucceeds ==
    (/\ pc = "unit done" /\ impl = "openff"
     /\ cls = "EnumerateStereoisomers" /\ Len(molecules) = 1
     /\ ~oracle[molecules[1]].enumRaises) =>
        IF Fails(molecules[1])
        THEN /\ result.filtered = {molecules[1]}
             /\ result.passed =
                    {i \in oracle[molecules[1]].states :
                        ~check_missing_stereo(i)} \ {molecules[1]}
        ELSE /\ StereoOutcome(molecules[1])
             /\ result.filtered = {}

C18_Witness ==
    /\ pc = "unit done"
    /\ impl = "openff"
    /\ cls = "EnumerateStereoisomers"
    /\ rationalise
    /\ Len(molecules) = 1
    /\ ~Fails(molecules[1])
    /\ check_missing_stereo(molecules[1])
    /\ \E i, j \in oracle[molecules[1]].states :
           /\ check_missing_stereo(i) /\ i \notin result.passed
           /\ j \in result.passed
    /\ molecules[1] \notin result.passed \cup result.filtered
    /\ conformers[molecules[1]] = 1

\* what apply has done by the time it has merged n units
Lifecycle(n) ==
    <<Ev("create", 0), Ev("setup", 0)>> \o [i \in 1..n |-> Ev("merge", i)]

\* C19: apply creates the result, runs the setup hook once before any unit
\* is processed, merges every unit, runs the teardown hook once and only
\* then returns, in sequential and in pool mode, also for an empty list
C19_LifecycleOrder ==
    /\ pc = "init" => trace = <<Ev("create", 0)>> /\ applied = << >>
    /\ pc \in {"seq", "pool"} =>
           /\ trace = Lifecycle(nxt - 1)
           /\ \A n \in DOMAIN applied : applied[n].unit \in 1..Len(molecules)
    /\ pc \notin {"init", "seq", "pool"} => trace = << >> /\ applied = << >>
    /\ \A k \in DOMAIN calls :
           Returned(k) =>
               calls[k].trace
                   = Lifecycle(Len(molecules)) \o <<Ev("teardown", 0)>>

C19_Witness ==
    /\ Len(calls) = 2
    /\ Returned(1) /\ Returned(2)
    /\ calls[1].pooled # calls[2].pooled
    /\ Len(molecules) = 2
    /\ Len(calls[2].trace) = 5

\* C20: every unit of work is one molecule: for n input molecules _apply
\* is invoked n times, each time on a list of one molecule, once for each
\* position of the input list, in sequential and in pool mode
C20_OneMoleculePerUnit ==
    /\ \A n \in DOMAIN applied :
           /\ applied[n].size = 1
           /\ applied[n].unit \in 1..Len(molecules)
    /\ \A a, b \in DOMAIN applied :
           a # b => applied[a].unit # applied[b].unit
    /\ pc = "pool" => Len(work_list) = Len(molecules)
    /\ (pc \in {"seq", "pool"} /\ nxt = Len(molecules) + 1) =>
           Len(applied) = Len(molecules)
    /\ \A k \in DOMAIN calls :
           Returned(k) =>
               Len(MergedUnits(calls[k].trace)) = Len(molecules)

C20_Witness ==
    /\ pc = "pool"
    /\ Len(molecules) = 2
    /\ molecules[1] = molecules[2]
    /\ Len(applied) = 2
    /\ nxt = 3
    /\ Len(calls) = 1
    /\ Returned(1)
    /\ ~calls[1].pooled

\* some unit of the running apply is in a worker that never finishes
Hung == \E i \in DOMAIN work_list : work_list[i].st = "hung"

Running == pc \in {"init", "seq", "pool"}

\* C21: apply has no timeout: a unit is merged only after it has run to its
\* end; an apply call none of whose units hangs comes to its end; and once a
\* unit hangs the call stays blocked, no result is delivered and the
\* teardown hook does not run, even when every other unit has finished
C21_BlocksUntilEveryUnitFinishes ==
    /\ [][(pc = "pool" /\ nxt' = nxt + 1) =>
             work_list[nxt].st = "finished"]_vars
    /\ [][Hung =>
             \/ Hung' /\ pc' = "pool" /\ calls' = calls /\ _cache' = _cache
             \/ /\ pc' = "idle"
                /\ calls' = Append(calls, CallRecord("raised",
                                                    "KeyboardInterrupt"))]_vars
    /\ Running ~> (pc = "idle" \/ Hung)

C21_Witness ==
    /\ pc = "pool"
    /\ Len(work_list) = 2
    /\ work_list[1].st = "hung"
    /\ work_list[2].st = "finished"
    /\ work_list[2].result.passed # {}
    /\ nxt = 1
    /\ HasToolkit(_cache)

\* C22 as stated: the legacy EnumerateStereoisomers returns the input alone
\* only when no isomer is found; when isomers are found every one of them
\* is passed, and include_input adds the input to them
C22_IncludeInputAddsToIsomers ==
    (/\ pc = "unit done" /\ impl = "qcsubmit"
     /\ cls = "EnumerateStereoisomers" /\ Len(molecules) = 1
     /\ ~oracle[molecules[1]].enumRaises) =>
        /\ result.filtered = {}
        /\ result.passed =
               IF oracle[molecules[1]].states = {}
               THEN {molecules[1]}
               ELSE oracle[molecules[1]].states
                        \cup (IF include_input THEN {molecules[1]} ELSE {})

TypeOK ==
    /\ cls \in Classes
    /\ pc \in {"new", "invalid", "idle", "init", "seq", "pool",
              "unit init", "unit apply", "unit done", "unit finalized"}
    /\ result.passed \subseteq AllIds
    /\ result.filtered \subseteq AllIds
    /\ Len(calls) <= MaxCalls

====
